---- MODULE Spec2Model ----
(***************************************************************************)
(* Phomo V2: the access-control graph (RecipientEdge) and its stream-      *)
(* driven FeedEntry projection, as provisioned by the CDK stacks.          *)
(*                                                                         *)
(* The stacks under lib/stacks fix the tables and their key schemas, the   *)
(* queue and stream event sources with their retry settings, and the IAM   *)
(* grants of every function.  The Lambda handlers the stacks point to      *)
(* (process-content-faces, retroactive-match, feed-entry-sync,             *)
(* accept-friendship, get-content-url) and the VTL resolvers listed as     *)
(* TODO in api-stack.ts are modelled from the design document, sections    *)
(* 4.1 to 4.4.                                                             *)
(***************************************************************************)
EXTENDS Integers, Sequences, FiniteSets, TLC

\* ------------------------------------------------------------------ bounds

\* Content items that may be uploaded.
MaxContent == 2
\* Largest value of the wall clock (createdAt timestamps).
MaxClock == 1
\* Interruptions (function timeouts, visibility timeouts, failed stream
\* attempts) injected in one behaviour.
MaxFaults == 1
\* Deliveries of one friendship-acceptance event to RetroactiveMatch.
MaxDeliveries == 2
\* Records waiting in the stream beyond which no manual share or removal is
\* issued.
MaxStream == 2
\* Content items uploaded where every writer of the Recipient Graph runs.
MaxGraphContent == 1
\* Longest time, in seconds, from the receive of a message to the start of the
\* invocation it is handed to.
MaxStartDelay == 1

\* ------------------------------------------------------- program constants

\* photoProcessingQueue.deadLetterQueue.maxReceiveCount
maxReceiveCount == 3
\* DynamoEventSource.retryAttempts of the RecipientEdge stream
retryAttempts == 3
\* DynamoEventSource.batchSize of the RecipientEdge stream
batchSize == 10
\* Threshold that gates any FACE_MATCH grant (design document, section 6).
T_high == 80
\* photoProcessingQueue.visibilityTimeout, in seconds
visibilityTimeout == 30
\* processContentFacesFunction.timeout, in seconds
functionTimeout == 30

\* -------------------------------------------------------------- the world

Users == {"alice", "bob", "carol"}

\* Deterministic ordering of user identifiers (user1Id < user2Id).
UserRank(u) ==
  CASE u = "alice" -> 1
    [] u = "bob" -> 2
    [] u = "carol" -> 3
    [] OTHER -> 4

ContentIds == 1..MaxContent

\* What is uploaded: the owner of content item c and what the Face Matching
\* Service detects in it.  sig names the person the signature belongs to; conf
\* is the confidence of its match against that person's enrolled profile face.
\* A signature may also match the enrolled face of a lookalike: alt, at
\* confidence altConf.
Photo(c) ==
  CASE c % 3 = 1 ->
         [owner |-> "alice",
          faces |-> << [sig |-> "bob", conf |-> 95,
                        alt |-> "carol", altConf |-> 85] >>]
    [] c % 3 = 2 ->
         [owner |-> "alice",
          faces |-> << [sig |-> "bob", conf |-> 95,
                        alt |-> "carol", altConf |-> 85],
                       [sig |-> "carol", conf |-> 79,
                        alt |-> "none", altConf |-> 0] >>]
    [] OTHER ->
         [owner |-> "bob",
          faces |-> << [sig |-> "alice", conf |-> 95,
                        alt |-> "none", altConf |-> 0],
                       [sig |-> "carol", conf |-> 79,
                        alt |-> "none", altConf |-> 0] >>]

\* A content item of the second owner, and the content items the photo
\* processing queue may ever hold a message for.
SecondOwnerContent ==
  CHOOSE c \in (MaxContent + 1)..(MaxContent + 3) : Photo(c).owner = "bob"

QueuedContent == ContentIds \cup {SecondOwnerContent}

VARIABLES
  now,             \* wall clock
  faults,          \* interruptions injected so far
  friendshipTable, \* Friendship rows
  contentTable,    \* Content rows
  s3Objects,       \* keys photos/<owner>/<content> present in the photo bucket
  faceIdentityTable,
  contentFaceTable,
  anomalies,       \* rejected resolutions, logged as data-integrity anomalies
  recipientEdgeTable,
  feedEntryTable,
  edgeStream,      \* DynamoDB stream of recipientEdgeTable (NEW_IMAGE)
  streamAttempts,  \* failed attempts of the record at the head of the stream
  discarded,       \* stream records given up after the retries
  poisoned,        \* edge ids whose stream records FeedEntrySync always fails on
  photoQueue,      \* photoProcessingQueue: content id -> message
  workers,         \* running ProcessContentFaces invocations
  retroRuns,       \* running RetroactiveMatch invocations
  retroLog,        \* friendship id -> outcome of each delivery of its acceptance
  lastRead         \* the last content read served to a viewer

vars ==
  << now, faults, friendshipTable, contentTable, s3Objects, faceIdentityTable,
     contentFaceTable, anomalies, recipientEdgeTable, feedEntryTable, edgeStream,
     streamAttempts, discarded, poisoned, photoQueue, workers, retroRuns,
     retroLog, lastRead >>

\* ------------------------------------------------------ DynamoDB key schemas

\* Primary key of each table: a partition key alone, no sort key.
friendshipKey(row) == row.friendshipId
contentKey(row) == row.contentId
\* The edge table keyed with createdAt as a sort key beside edgeId.
recipientEdgeKeyWithSortKey(row) == << row.edgeId, row.createdAt >>
\* The edge table keyed with sourceType as a sort key beside edgeId.
recipientEdgeKeyWithSourceType(row) == << row.edgeId, row.sourceType >>
recipientEdgeKey(row) == row.edgeId
\* The feed table keyed with the edge's method as a sort key beside feedEntryId.
feedEntryKeyWithMethod(row) == << row.feedEntryId, row.method >>
feedEntryKey(row) == row.feedEntryId
faceIdentityKey(row) == row.faceIdentityId
\* The ContentFace table keyed with createdAt as a sort key beside contentFaceId.
contentFaceKeyWithSortKey(row) == << row.contentFaceId, row.createdAt >>
contentFaceKey(row) == row.contentFaceId

\* PutItem: the row replaces the item with the same primary key.
PutRecipientEdge(table, row) ==
  {r \in table : recipientEdgeKey(r) # recipientEdgeKey(row)} \cup {row}
PutFeedEntry(table, row) ==
  {r \in table : feedEntryKey(r) # feedEntryKey(row)} \cup {row}
PutFaceIdentity(table, row) ==
  {r \in table : faceIdentityKey(r) # faceIdentityKey(row)} \cup {row}
PutContentFace(table, row) ==
  {r \in table : contentFaceKey(r) # contentFaceKey(row)} \cup {row}
PutFriendship(table, row) ==
  {r \in table : friendshipKey(r) # friendshipKey(row)} \cup {row}
PutContent(table, row) ==
  {r \in table : contentKey(r) # contentKey(row)} \cup {row}

\* ------------------------------------------------------------ friendships

\* The friendship id as the request names the pair: requester first.
FriendshipIdAsSent(a, b) == << a, b >>

\* Canonical friendship id of an unordered pair: the lower user first.
FriendshipId(a, b) ==
  IF UserRank(a) < UserRank(b) THEN <<a, b>> ELSE <<b, a>>

FriendshipRow(a, b) ==
  {f \in friendshipTable : f.friendshipId = FriendshipId(a, b)}

\* UserPairIndex lookup: "are we friends?"
AreFriends(a, b) ==
  \E f \in FriendshipRow(a, b) : f.status = "ACCEPTED"

Init ==
  /\ now = 0
  /\ faults = 0
  /\ friendshipTable = {}
  /\ contentTable = {}
  /\ s3Objects = {}
  /\ faceIdentityTable = {}
  /\ contentFaceTable = {}
  /\ anomalies = {}
  /\ recipientEdgeTable = {}
  /\ feedEntryTable = {}
  /\ edgeStream = << >>
  /\ streamAttempts = 0
  /\ discarded = {}
  /\ poisoned = {}
  /\ photoQueue = [c \in QueuedContent |->
                    [state |-> "none", receiveCount |-> 0, completions |-> 0]]
  /\ workers = {}
  /\ retroRuns = {}
  /\ retroLog = [p \in {} |-> << >>]
  /\ lastRead = [path |-> "none"]

\* --------------------------------------------------------- variable groups

vUpload == << contentTable, s3Objects, photoQueue, workers >>
vFaces == << faceIdentityTable, contentFaceTable, anomalies >>
vEdges == << recipientEdgeTable, edgeStream >>
vFeed == << feedEntryTable, streamAttempts, discarded, poisoned >>
vRetro == << retroRuns, retroLog >>

\* ------------------------------------------------------------------ helpers

RECURSIVE SeqOf(_)
\* The elements of a finite set as a sequence (the order of a query result).
SeqOf(S) ==
  IF S = {} THEN << >>
  ELSE LET x == CHOOSE y \in S : TRUE IN << x >> \o SeqOf(S \ {x})

RECURSIVE SortedIds(_)
\* A finite set of integers as an ascending sequence (a sort-key order).
SortedIds(S) ==
  IF S = {} THEN << >>
  ELSE LET x == CHOOSE y \in S : \A z \in S : y <= z
       IN << x >> \o SortedIds(S \ {x})

\* ------------------------------------------------------ Face Matching Service

\* matchAgainstEnrolled: the confidence with which a stored face matches the
\* enrolled profile face of user u.
MatchConfidence(face, u) ==
  IF face.sig = u THEN face.conf
  ELSE IF face.alt = u THEN face.altConf
  ELSE 0

\* ----------------------------------------------------------- Recipient Graph

\* Deterministic edge identifier: one per (content, recipient, method).
EdgeId(c, r, method) == << c, r, method >>

EdgeRow(c, r, method, conf, sourceType) ==
  [edgeId |-> EdgeId(c, r, method), contentId |-> c, recipientUserId |-> r,
   contentOwnerId |-> Photo(c).owner, method |-> method, confidence |-> conf,
   sourceType |-> sourceType, createdAt |-> now]

\* A grant: PutItem guarded by attribute_not_exists on the primary key, so an
\* existing edge is left as it is.  The table's stream carries an INSERT record
\* with the new image of every row created.
GrantCreates(row) ==
  ~ \E r \in recipientEdgeTable : recipientEdgeKey(r) = recipientEdgeKey(row)

Grant(row) ==
  IF GrantCreates(row)
  THEN /\ recipientEdgeTable' = PutRecipientEdge(recipientEdgeTable, row)
       /\ edgeStream' = Append(edgeStream, [eventName |-> "INSERT", image |-> row])
  ELSE UNCHANGED << recipientEdgeTable, edgeStream >>

\* -------------------------------------------------------------- friendships

\* The friend requests that are sent: <<requester, addressee>>.
MaxFriendships == 1

FriendRequest(i) ==
  CASE i % 6 = 1 -> << "bob", "alice" >>
    [] i % 6 = 2 -> << "carol", "alice" >>
    [] i % 6 = 3 -> << "bob", "carol" >>
    [] i % 6 = 4 -> << "alice", "bob" >>
    [] i % 6 = 5 -> << "alice", "carol" >>
    [] OTHER -> << "carol", "bob" >>

\* Mutation.sendFriendRequest: FriendshipTable PutItem under the canonical id,
\* only when the pair has no row yet.
SendFriendRequest(i) ==
  LET a == FriendRequest(i)[1]
      b == FriendRequest(i)[2]
      id == FriendshipId(a, b)
  IN /\ FriendshipRow(a, b) = {}
     /\ friendshipTable' =
          PutFriendship(friendshipTable,
            [friendshipId |-> id, user1Id |-> id[1], user2Id |-> id[2],
             status |-> "PENDING", requesterId |-> a])
     /\ UNCHANGED << now, faults, vUpload, vFaces, vEdges, vFeed, vRetro,
                     lastRead >>

\* AcceptFriendship with no check of the row's status: every accept request
\* writes ACCEPTED and invokes RetroactiveMatch.
AcceptFriendshipAnyStatus(f) ==
  /\ f \in friendshipTable
  /\ friendshipTable' = PutFriendship(friendshipTable, [f EXCEPT !.status = "ACCEPTED"])
  /\ retroLog' = [p \in DOMAIN retroLog \cup {f.friendshipId} |->
                    IF p = f.friendshipId THEN << >> ELSE retroLog[p]]
  /\ UNCHANGED << now, faults, vUpload, vFaces, vEdges, vFeed, retroRuns,
                  lastRead >>

\* AcceptFriendship: the PENDING row becomes ACCEPTED and RetroactiveMatch is
\* invoked for the pair (requester, acceptor).
AcceptFriendship(f) ==
  /\ f \in friendshipTable
  /\ f.status = "PENDING"
  /\ friendshipTable' = PutFriendship(friendshipTable, [f EXCEPT !.status = "ACCEPTED"])
  /\ retroLog' = [p \in DOMAIN retroLog \cup {f.friendshipId} |->
                    IF p = f.friendshipId THEN << >> ELSE retroLog[p]]
  /\ UNCHANGED << now, faults, vUpload, vFaces, vEdges, vFeed, retroRuns,
                  lastRead >>

\* ------------------------------------------------------- Retroactive Matching

\* The two directions of one run: (owner, newly trusted user).
RetroDirections(f) ==
  LET acceptor == IF f.requesterId = f.user1Id THEN f.user2Id ELSE f.user1Id
  IN << << f.requesterId, acceptor >>, << acceptor, f.requesterId >> >>

\* The acceptance event of friendship f reaches RetroactiveMatch: a new run
\* starts.  The event may be delivered more than once.
DeliverAcceptance(f) ==
  /\ f \in friendshipTable
  /\ f.status = "ACCEPTED"
  /\ f.friendshipId \in DOMAIN retroLog
  /\ Len(retroLog[f.friendshipId]) < MaxDeliveries
  /\ retroLog' = [retroLog EXCEPT ![f.friendshipId] = Append(@, "running")]
  /\ retroRuns' = retroRuns \cup
       {[fid |-> f.friendshipId, delivery |-> Len(retroLog[f.friendshipId]) + 1,
         resumed |-> \E k \in DOMAIN retroLog[f.friendshipId] :
                       retroLog[f.friendshipId][k] = "timeout",
         dirs |-> RetroDirections(f), pc |-> "list", fis |-> << >>,
         contents |-> << >>]}
  /\ UNCHANGED << now, faults, friendshipTable, vUpload, vFaces, vEdges, vFeed,
                  lastRead >>

\* Step 1: OwnerUnknownFacesIndex query (ownerId = A, status = UNKNOWN), kept
\* to the identities that match B's enrolled profile at or above T_high.
UnknownFacesMatching(A, B) ==
  {fi \in faceIdentityTable :
     /\ fi.ownerId = A
     /\ fi.status = "UNKNOWN"
     /\ MatchConfidence(fi.face, B) >= T_high}

RetroList(run) ==
  /\ run \in retroRuns
  /\ run.pc = "list"
  /\ run.dirs # << >>
  /\ LET A == run.dirs[1][1]
         B == run.dirs[1][2]
         found == SeqOf({fi.faceIdentityId : fi \in UnknownFacesMatching(A, B)})
     IN retroRuns' = (retroRuns \ {run}) \cup
          {IF found = << >>
           THEN [run EXCEPT !.dirs = Tail(@)]
           ELSE [run EXCEPT !.pc = "resolve", !.fis = found]}
  /\ UNCHANGED << now, faults, friendshipTable, vUpload, vFaces, vEdges, vFeed,
                  retroLog, lastRead >>

\* Step 2a with an unconditional UpdateItem: the identity becomes RESOLVED(B)
\* whatever it was, and its content is granted.
RetroResolveOverwrite(run) ==
  /\ run \in retroRuns
  /\ run.pc = "resolve"
  /\ LET B == run.dirs[1][2]
         fi == CHOOSE r \in faceIdentityTable : r.faceIdentityId = run.fis[1]
     IN faceIdentityTable' =
          PutFaceIdentity(faceIdentityTable,
            [fi EXCEPT !.status = "RESOLVED", !.resolvedToUserId = B])
  /\ retroRuns' = (retroRuns \ {run}) \cup {[run EXCEPT !.pc = "contents"]}
  /\ UNCHANGED << now, faults, friendshipTable, vUpload, contentFaceTable,
                  anomalies, vEdges, vFeed, retroLog, lastRead >>

\* Step 2a: the identity goes UNKNOWN -> RESOLVED(B): UpdateItem on condition
\* that it is still UNKNOWN.  An identity already resolved to B is kept and its
\* content is granted; one resolved to another user is rejected and skipped.
RetroResolve(run) ==
  /\ run \in retroRuns
  /\ run.pc = "resolve"
  /\ LET B == run.dirs[1][2]
         id == run.fis[1]
         fi == CHOOSE r \in faceIdentityTable : r.faceIdentityId = id
         rejected == fi.status = "RESOLVED" /\ fi.resolvedToUserId # B
     IN /\ faceIdentityTable' =
             IF fi.status = "UNKNOWN"
             THEN PutFaceIdentity(faceIdentityTable,
                    [fi EXCEPT !.status = "RESOLVED", !.resolvedToUserId = B])
             ELSE faceIdentityTable
        /\ anomalies' =
             IF rejected
             THEN anomalies \cup {[faceIdentityId |-> id, attempted |-> B]}
             ELSE anomalies
        /\ retroRuns' = (retroRuns \ {run}) \cup
             {IF rejected
              THEN IF Len(run.fis) > 1
                   THEN [run EXCEPT !.fis = Tail(@)]
                   ELSE [run EXCEPT !.fis = << >>, !.pc = "list", !.dirs = Tail(@)]
              ELSE [run EXCEPT !.pc = "contents"]}
  /\ UNCHANGED << now, faults, friendshipTable, vUpload, contentFaceTable,
                  vEdges, vFeed, retroLog, lastRead >>

\* Step 2b: FaceIdentityContentIndex query: the content items the identity
\* appears in, in the order of the index's sort key (contentId).
ContentOfFaceIdentity(id) ==
  SortedIds({cf.contentId : cf \in {r \in contentFaceTable : r.faceIdentityId = id}})

\* The run moves on from the identity at the head of its list.
RetroAfterIdentity(run) ==
  IF Len(run.fis) > 1
  THEN [run EXCEPT !.fis = Tail(@), !.contents = << >>, !.pc = "resolve"]
  ELSE [run EXCEPT !.fis = << >>, !.contents = << >>, !.pc = "list",
                   !.dirs = Tail(@)]

RetroListContent(run) ==
  /\ run \in retroRuns
  /\ run.pc = "contents"
  /\ LET found == ContentOfFaceIdentity(run.fis[1])
     IN retroRuns' = (retroRuns \ {run}) \cup
          {IF found = << >>
           THEN RetroAfterIdentity(run)
           ELSE [run EXCEPT !.pc = "grant", !.contents = found]}
  /\ UNCHANGED << now, faults, friendshipTable, vUpload, vFaces, vEdges, vFeed,
                  retroLog, lastRead >>

\* The confidence a retroactive grant records: that of the identity's match
\* against the newly trusted user's profile.
RetroEdge(run) ==
  LET B == run.dirs[1][2]
      fi == CHOOSE r \in faceIdentityTable : r.faceIdentityId = run.fis[1]
  IN EdgeRow(run.contents[1], B, "FACE_MATCH", MatchConfidence(fi.face, B),
             "RETROACTIVE")

\* Step 2c: one independently committed grant per content item.
RetroGrant(run) ==
  /\ run \in retroRuns
  /\ run.pc = "grant"
  /\ Grant(RetroEdge(run))
  /\ retroRuns' = (retroRuns \ {run}) \cup
       {IF Len(run.contents) > 1
        THEN [run EXCEPT !.contents = Tail(@)]
        ELSE RetroAfterIdentity(run)}
  /\ UNCHANGED << now, faults, friendshipTable, vUpload, vFaces, vFeed,
                  retroLog, lastRead >>

\* The run has worked through both directions and returns.
RetroDone(run) ==
  /\ run \in retroRuns
  /\ run.pc = "list"
  /\ run.dirs = << >>
  /\ retroRuns' = retroRuns \ {run}
  /\ retroLog' = [retroLog EXCEPT ![run.fid][run.delivery] =
                    IF run.resumed THEN "resumedDone" ELSE "done"]
  /\ UNCHANGED << now, faults, friendshipTable, vUpload, vFaces, vEdges, vFeed,
                  lastRead >>

\* The function times out (60 s): the run stops where it is.
RetroTimeout(run) ==
  /\ run \in retroRuns
  /\ faults < MaxFaults
  /\ faults' = faults + 1
  /\ retroRuns' = retroRuns \ {run}
  /\ retroLog' = [retroLog EXCEPT ![run.fid][run.delivery] = "timeout"]
  /\ UNCHANGED << now, friendshipTable, vUpload, vFaces, vEdges, vFeed,
                  lastRead >>

\* ------------------------------------------------------------------ upload

\* A client puts the photo under photos/<owner>/ and creates its Content row
\* (Mutation.createContent); the bucket's Object Created event reaches the
\* photo processing queue through the PhotoUploadRule.
Upload(c) ==
  /\ photoQueue[c].state = "none"
  /\ s3Objects' = s3Objects \cup {c}
  /\ contentTable' =
       PutContent(contentTable,
         [contentId |-> c, ownerId |-> Photo(c).owner, createdAt |-> now])
  /\ photoQueue' = [photoQueue EXCEPT ![c].state = "visible"]
  /\ UNCHANGED << now, faults, friendshipTable, vFaces, vEdges, vFeed, vRetro,
                  workers, lastRead >>

\* The SqsEventSource (batchSize 1) receives the message and invokes
\* ProcessContentFaces with it.
ReceiveMessage(c) ==
  /\ photoQueue[c].state = "visible"
  /\ photoQueue[c].receiveCount < maxReceiveCount
  /\ photoQueue' = [photoQueue EXCEPT ![c].state = "inflight",
                                      ![c].receiveCount = @ + 1]
  /\ workers' = workers \cup
       {[c |-> c, receipt |-> photoQueue[c].receiveCount + 1, pc |-> "identity",
         i |-> 1, friendMatch |-> FALSE, friend |-> "none"]}
  /\ UNCHANGED << now, faults, friendshipTable, contentTable, s3Objects, vFaces,
                  vEdges, vFeed, vRetro, lastRead >>

\* A message received maxReceiveCount times without being deleted moves to the
\* dead-letter queue.
MoveToDeadLetterQueue(c) ==
  /\ photoQueue[c].state = "visible"
  /\ photoQueue[c].receiveCount >= maxReceiveCount
  /\ photoQueue' = [photoQueue EXCEPT ![c].state = "dlq"]
  /\ UNCHANGED << now, faults, friendshipTable, contentTable, s3Objects, workers,
                  vFaces, vEdges, vFeed, vRetro, lastRead >>

\* The visibility timeout (30 s) of a received message runs out: the message
\* can be received again.  While the invocation that received it is still
\* running this is an interruption of the normal course.
Holding(c) ==
  {w \in workers : w.c = c /\ w.receipt = photoQueue[c].receiveCount}

\* An invocation started some time after the receive and running to the
\* function's timeout is still running when the visibility timeout ends.
MayOutliveVisibility ==
  \E delay \in 0..MaxStartDelay : delay + functionTimeout > visibilityTimeout

VisibilityTimeout(c) ==
  /\ photoQueue[c].state = "inflight"
  /\ IF Holding(c) = {}
     THEN UNCHANGED faults
     ELSE /\ MayOutliveVisibility
          /\ faults < MaxFaults
          /\ faults' = faults + 1
  /\ photoQueue' = [photoQueue EXCEPT ![c].state = "visible"]
  /\ UNCHANGED << now, friendshipTable, contentTable, s3Objects, workers, vFaces,
                  vEdges, vFeed, vRetro, lastRead >>

\* ----------------------------------------------------- Access Decision Engine

FaceIdentityId(owner, face) == << owner, face.sig >>
ContentFaceId(c, faceIdentityId) == << c, faceIdentityId >>

DetectedFace(w) == Photo(w.c).faces[w.i]

\* The candidates without the friendship lookup: any enrolled user.
FriendCandidatesAnyEnrolledUser(owner, face) ==
  {u \in Users \ {owner} : MatchConfidence(face, u) >= T_high}

\* The candidates with no threshold: any friend the signature resembles at all.
FriendCandidatesAnyConfidence(owner, face) ==
  {u \in Users \ {owner} : AreFriends(owner, u) /\ MatchConfidence(face, u) > 0}

\* Step 1(b): the friends of the content owner whose enrolled profile face the
\* signature matches with confidence at or above T_high.
FriendCandidates(owner, face) ==
  {u \in Users \ {owner} :
     AreFriends(owner, u) /\ MatchConfidence(face, u) >= T_high}

\* Step 2's test.
FriendMatch(owner, face) == FriendCandidates(owner, face) # {}

\* The friend the face is taken for: the highest confidence wins, the lower
\* user id on a tie.
MatchedFriend(owner, face) ==
  CHOOSE u \in FriendCandidates(owner, face) :
    \A v \in FriendCandidates(owner, face) :
      \/ MatchConfidence(face, u) > MatchConfidence(face, v)
      \/ /\ MatchConfidence(face, u) = MatchConfidence(face, v)
         /\ UserRank(u) <= UserRank(v)

\* The FaceIdIndex query on the signature alone: the rows of every owner.
FaceIdLookupAnyOwner(owner, face) ==
  {r \in faceIdentityTable : r.face.sig = face.sig}

\* Step 1(c): the existing FaceIdentity of this signature owned by this content
\* owner (the lookup by face id, kept to the owner's rows).
FaceIdLookup(owner, face) ==
  {r \in faceIdentityTable : r.face.sig = face.sig /\ r.ownerId = owner}

\* The identity update that records the detection and never resolves it.
IdentityAfterDetectionUnresolved(owner, face, c) ==
  LET id == FaceIdentityId(owner, face)
      old == FaceIdLookup(owner, face)
  IN IF old = {}
     THEN [faceIdentityId |-> id, ownerId |-> owner, face |-> face,
           status |-> "UNKNOWN", resolvedToUserId |-> "none",
           detectionCount |-> 1, lastSeenContentId |-> c]
     ELSE LET o == CHOOSE r \in old : TRUE
          IN [o EXCEPT !.detectionCount = @ + 1, !.lastSeenContentId = c]

\* The identity update that resolves to the matched friend whatever the
\* identity's status.
IdentityAfterDetectionOverwrite(owner, face, c) ==
  LET seen == IdentityAfterDetectionUnresolved(owner, face, c)
  IN IF FriendMatch(owner, face)
     THEN [seen EXCEPT !.status = "RESOLVED",
                       !.resolvedToUserId = MatchedFriend(owner, face)]
     ELSE seen

\* Steps 2 to 4 on the Face Identity Store.
IdentityAfterDetection(owner, face, c) ==
  LET id == FaceIdentityId(owner, face)
      old == FaceIdLookup(owner, face)
      fresh == [faceIdentityId |-> id, ownerId |-> owner, face |-> face,
                status |-> "UNKNOWN", resolvedToUserId |-> "none",
                detectionCount |-> 1, lastSeenContentId |-> c]
      seen == IF old = {} THEN fresh
              ELSE LET o == CHOOSE r \in old : TRUE
                   IN [o EXCEPT !.detectionCount = @ + 1, !.lastSeenContentId = c]
  IN IF FriendMatch(owner, face) /\ seen.status = "UNKNOWN"
     THEN [seen EXCEPT !.status = "RESOLVED",
                       !.resolvedToUserId = MatchedFriend(owner, face)]
     ELSE seen

\* The matched friend is not the user the identity is already RESOLVED to: the
\* resolution is rejected (an invariant violation) and nothing is granted.
ResolveRejected(owner, face) ==
  /\ FriendMatch(owner, face)
  /\ \E r \in faceIdentityTable :
       /\ r.faceIdentityId = FaceIdentityId(owner, face)
       /\ r.status = "RESOLVED"
       /\ r.resolvedToUserId # MatchedFriend(owner, face)

ProcessIdentity(w) ==
  /\ w \in workers
  /\ w.pc = "identity"
  /\ LET owner == Photo(w.c).owner
         face == DetectedFace(w)
     IN /\ faceIdentityTable' =
             PutFaceIdentity(faceIdentityTable,
                             IdentityAfterDetection(owner, face, w.c))
        /\ anomalies' =
             IF ResolveRejected(owner, face)
             THEN anomalies \cup
                    {[faceIdentityId |-> FaceIdentityId(owner, face),
                      attempted |-> MatchedFriend(owner, face)]}
             ELSE anomalies
        /\ workers' = (workers \ {w}) \cup
             {[w EXCEPT !.pc = "contentFace",
                        !.friendMatch = FriendMatch(owner, face)
                                          /\ ~ ResolveRejected(owner, face),
                        !.friend = IF FriendMatch(owner, face)
                                   THEN MatchedFriend(owner, face) ELSE "none"]}
  /\ UNCHANGED << now, faults, friendshipTable, contentTable, s3Objects,
                  photoQueue, contentFaceTable, vEdges, vFeed, vRetro, lastRead >>

\* The join record of the detected face, written once under its deterministic
\* identifier.
ContentFaceRow(w) ==
  LET id == FaceIdentityId(Photo(w.c).owner, DetectedFace(w))
  IN [contentFaceId |-> ContentFaceId(w.c, id), contentId |-> w.c,
      faceIdentityId |-> id, confidence |-> DetectedFace(w).conf,
      createdAt |-> now]

ProcessContentFace(w) ==
  /\ w \in workers
  /\ w.pc = "contentFace"
  /\ contentFaceTable' =
       IF \E r \in contentFaceTable : contentFaceKey(r) = contentFaceKey(ContentFaceRow(w))
       THEN contentFaceTable
       ELSE PutContentFace(contentFaceTable, ContentFaceRow(w))
  /\ workers' = (workers \ {w}) \cup {[w EXCEPT !.pc = "grant"]}
  /\ UNCHANGED << now, faults, friendshipTable, contentTable, s3Objects,
                  photoQueue, faceIdentityTable, anomalies, vEdges, vFeed, vRetro,
                  lastRead >>

\* Step 2's grant (REALTIME), then on to the next detected face.
ProcessGrant(w) ==
  /\ w \in workers
  /\ w.pc = "grant"
  /\ IF w.friendMatch
     THEN Grant(EdgeRow(w.c, w.friend, "FACE_MATCH",
                        MatchConfidence(DetectedFace(w), w.friend), "REALTIME"))
     ELSE UNCHANGED << recipientEdgeTable, edgeStream >>
  /\ workers' = (workers \ {w}) \cup
       {IF w.i < Len(Photo(w.c).faces)
        THEN [w EXCEPT !.i = @ + 1, !.pc = "identity", !.friendMatch = FALSE,
                       !.friend = "none"]
        ELSE [w EXCEPT !.pc = "return"]}
  /\ UNCHANGED << now, faults, friendshipTable, contentTable, s3Objects,
                  photoQueue, vFaces, vFeed, vRetro, lastRead >>

\* The handler returns: the event source deletes the message, which works only
\* with the receipt of the message's latest receive, and only while in flight.
ProcessReturn(w) ==
  /\ w \in workers
  /\ w.pc = "return"
  /\ workers' = workers \ {w}
  /\ photoQueue' =
       [photoQueue EXCEPT
          ![w.c].completions = @ + 1,
          ![w.c].state =
             IF @ = "inflight" /\ photoQueue[w.c].receiveCount = w.receipt
             THEN "deleted" ELSE @]
  /\ UNCHANGED << now, faults, friendshipTable, contentTable, s3Objects, vFaces,
                  vEdges, vFeed, vRetro, lastRead >>

\* The function times out (30 s) or fails: the invocation ends where it is and
\* the message stays in flight until its visibility timeout.
ProcessTimeout(w) ==
  /\ w \in workers
  /\ faults < MaxFaults
  /\ faults' = faults + 1
  /\ workers' = workers \ {w}
  /\ UNCHANGED << now, friendshipTable, contentTable, s3Objects, photoQueue,
                  vFaces, vEdges, vFeed, vRetro, lastRead >>

\* The role of ProcessContentFaces has read access to the Content table and no
\* write access.
processContentFacesMayWriteContent == FALSE

\* The Content row of c marked FAILED for manual reconciliation.
MarkedFailed(table, c) ==
  {IF x.contentId = c
   THEN [contentId |-> x.contentId, ownerId |-> x.ownerId,
         createdAt |-> x.createdAt, status |-> "FAILED"]
   ELSE x : x \in table}

\* The Face Matching Service is unavailable when the invocation calls it: the
\* invocation throws, and the message stays in flight until its visibility
\* timeout.  On the last receive the handler marks the content FAILED, when its
\* role lets it write the Content table.
ProcessServiceUnavailable(w) ==
  /\ w \in workers
  /\ w.pc = "identity"
  /\ workers' = workers \ {w}
  /\ contentTable' =
       IF w.receipt >= maxReceiveCount /\ processContentFacesMayWriteContent
       THEN MarkedFailed(contentTable, w.c)
       ELSE contentTable
  /\ UNCHANGED << now, faults, friendshipTable, s3Objects, photoQueue,
                  vFaces, vEdges, vFeed, vRetro, lastRead >>

\* ------------------------------------------------- manual sharing, deletion

\* The stream record of a write that turns the item `old` (a set: empty when
\* there was none) into `row`.  The stream's view type is NEW_IMAGE.
PutRecord(old, row) ==
  IF old = {} THEN << [eventName |-> "INSERT", image |-> row] >>
  ELSE IF old = {row} THEN << >>
  ELSE << [eventName |-> "MODIFY", image |-> row] >>

\* A REMOVE record carries the key of the deleted item and no image.
RemoveRecord(row) == [eventName |-> "REMOVE", key |-> recipientEdgeKey(row)]

\* Mutation.shareContentManually: RecipientEdgeTable PutItem, by the owner.
ShareContentManually(c, r) ==
  /\ Len(edgeStream) < MaxStream
  /\ \E x \in contentTable : x.contentId = c
  /\ r # Photo(c).owner
  /\ LET row == EdgeRow(c, r, "MANUAL", 100, "REALTIME")
         old == {e \in recipientEdgeTable : recipientEdgeKey(e) = recipientEdgeKey(row)}
     IN /\ recipientEdgeTable' = PutRecipientEdge(recipientEdgeTable, row)
        /\ edgeStream' = edgeStream \o PutRecord(old, row)
  /\ UNCHANGED << now, faults, friendshipTable, vUpload, vFaces, vFeed, vRetro,
                  lastRead >>

\* Mutation.removeRecipient: RecipientEdgeTable DeleteItem.
RemoveRecipient(e) ==
  /\ Len(edgeStream) < MaxStream
  /\ e \in recipientEdgeTable
  /\ recipientEdgeTable' = recipientEdgeTable \ {e}
  /\ edgeStream' = Append(edgeStream, RemoveRecord(e))
  /\ UNCHANGED << now, faults, friendshipTable, vUpload, vFaces, vFeed, vRetro,
                  lastRead >>

\* Mutation.deleteContent: pipeline that deletes the object from S3, the row
\* from ContentTable and the content's rows from RecipientEdgeTable.
DeleteContent(c) ==
  /\ \E x \in contentTable : x.contentId = c
  /\ s3Objects' = s3Objects \ {c}
  /\ contentTable' = {x \in contentTable : x.contentId # c}
  /\ LET gone == {e \in recipientEdgeTable : e.contentId = c}
     IN /\ recipientEdgeTable' = recipientEdgeTable \ gone
        /\ edgeStream' = edgeStream \o
             [i \in 1..Cardinality(gone) |-> RemoveRecord(SeqOf(gone)[i])]
  /\ UNCHANGED << now, faults, friendshipTable, photoQueue, workers, vFaces,
                  vFeed, vRetro, lastRead >>

\* ------------------------------------------------------------ Feed Materializer

FeedEntryId(r, c) == << r, c >>

\* The FeedEntry derived from an edge image and the Content row it refers to.
FeedEntryRow(edge, content) ==
  [feedEntryId |-> FeedEntryId(edge.recipientUserId, edge.contentId),
   recipientUserId |-> edge.recipientUserId, contentId |-> edge.contentId,
   contentOwnerId |-> edge.contentOwnerId,
   contentCreatedAt |-> content.createdAt, edgeCreatedAt |-> edge.createdAt,
   method |-> edge.method, confidence |-> edge.confidence]

\* What FeedEntrySync does with one stream record: an image is upserted under
\* (recipient, content) when its Content row is found; a record with no image
\* (REMOVE) or with no Content row leaves the table as it is.
Materialize(table, record) ==
  IF record.eventName = "REMOVE" THEN table
  ELSE LET rows == {x \in contentTable : x.contentId = record.image.contentId}
       IN IF rows = {} THEN table
          ELSE PutFeedEntry(table, FeedEntryRow(record.image, CHOOSE x \in rows : TRUE))

\* One invocation's batch, record by record in stream order.
RECURSIVE MaterializeBatch(_, _)
MaterializeBatch(table, records) ==
  IF records = << >> THEN table
  ELSE MaterializeBatch(Materialize(table, Head(records)), Tail(records))

\* The item a stream record is about: records of one item stay in order.
RecordKey(record) ==
  IF record.eventName = "REMOVE" THEN record.key
  ELSE recipientEdgeKey(record.image)

\* A record FeedEntrySync throws on at every attempt.
Poisoned(record) == RecordKey(record) \in poisoned

\* The event source mapping of the stream has no onFailure destination.
streamOnFailure == "none"

\* The records the event source has sent to its on-failure destination.
FailureDestination ==
  IF streamOnFailure = "none" THEN {} ELSE discarded

\* The record at the head of the stream is one FeedEntrySync always throws on.
PoisonedHead == edgeStream # << >> /\ Poisoned(Head(edgeStream))

\* A materializer that takes the edges it has materialized out of the
\* RecipientEdge table, as if the FeedEntry were the copy that counts.
FeedSyncMovingEdges ==
  /\ edgeStream # << >>
  /\ \E n \in 1..Len(edgeStream) :
       /\ n <= batchSize
       /\ \A i \in 1..n : ~Poisoned(edgeStream[i])
       /\ feedEntryTable' = MaterializeBatch(feedEntryTable, SubSeq(edgeStream, 1, n))
       /\ edgeStream' = SubSeq(edgeStream, n + 1, Len(edgeStream))
       /\ recipientEdgeTable' =
            {e \in recipientEdgeTable :
               ~ \E i \in 1..n : /\ edgeStream[i].eventName # "REMOVE"
                                 /\ edgeStream[i].image = e}
  /\ streamAttempts' = 0
  /\ UNCHANGED << now, faults, friendshipTable, vUpload, vFaces,
                  discarded, poisoned, vRetro, lastRead >>

\* FeedEntrySync handles a batch from the head of the stream: the records
\* available, batchSize at most.
FeedSync ==
  /\ edgeStream # << >>
  /\ \E n \in 1..Len(edgeStream) :
       /\ n <= batchSize
       /\ \A i \in 1..n : ~Poisoned(edgeStream[i])
       /\ feedEntryTable' = MaterializeBatch(feedEntryTable, SubSeq(edgeStream, 1, n))
       /\ edgeStream' = SubSeq(edgeStream, n + 1, Len(edgeStream))
  /\ streamAttempts' = 0
  /\ UNCHANGED << now, faults, friendshipTable, vUpload, vFaces,
                  recipientEdgeTable, discarded, poisoned, vRetro, lastRead >>

\* An invocation fails (throttling, timeout): the event source bisects the
\* batch down to its first record and retries it, retryAttempts times at most.
\* The records handled before the failure keep their effect and are delivered
\* again with the retry.
FeedSyncFail ==
  /\ edgeStream # << >>
  /\ streamAttempts < retryAttempts
  /\ \E k \in 0..(Len(edgeStream) - 1) :
       /\ k < batchSize
       /\ \A i \in 1..k : ~Poisoned(edgeStream[i])
       /\ feedEntryTable' = MaterializeBatch(feedEntryTable, SubSeq(edgeStream, 1, k))
  /\ streamAttempts' = streamAttempts + 1
  /\ UNCHANGED << now, faults, friendshipTable, vUpload, vFaces, vEdges,
                  discarded, poisoned, vRetro, lastRead >>

\* Records of different items can lie in different shards of the stream, each
\* with its own invocations: record k is handled before the records ahead of
\* it, none of which is about the same item.
FeedSyncOtherShard(k) ==
  /\ k \in 2..Len(edgeStream)
  /\ \A j \in 1..(k - 1) : RecordKey(edgeStream[j]) # RecordKey(edgeStream[k])
  /\ ~Poisoned(edgeStream[k])
  /\ feedEntryTable' = Materialize(feedEntryTable, edgeStream[k])
  /\ edgeStream' = SubSeq(edgeStream, 1, k - 1) \o
                     SubSeq(edgeStream, k + 1, Len(edgeStream))
  /\ UNCHANGED << now, faults, friendshipTable, vUpload, vFaces,
                  recipientEdgeTable, streamAttempts, discarded, poisoned,
                  vRetro, lastRead >>

\* The event source with retryAttempts -1: the record is retried until it
\* expires from the stream, and the records behind it wait.
FeedSyncRetryUntilExpiry ==
  /\ edgeStream # << >>
  /\ streamAttempts = retryAttempts
  /\ streamAttempts' = 0
  /\ UNCHANGED << now, faults, friendshipTable, vUpload, vFaces, vEdges,
                  feedEntryTable, discarded, poisoned, vRetro, lastRead >>

\* The invocation fails once more with the retries used up: the event source
\* has no failure destination and moves past the record.
FeedSyncDiscard ==
  /\ edgeStream # << >>
  /\ streamAttempts = retryAttempts
  /\ discarded' = discarded \cup {Head(edgeStream)}
  /\ edgeStream' = Tail(edgeStream)
  /\ streamAttempts' = 0
  /\ UNCHANGED << now, faults, friendshipTable, vUpload, vFaces,
                  recipientEdgeTable, feedEntryTable, poisoned, vRetro, lastRead >>

\* ------------------------------------------------------------------ read paths

\* Whether (content, viewer) has a RecipientEdge, or a FeedEntry, right now.
HasGrant(c, viewer) ==
  \/ \E e \in recipientEdgeTable : e.contentId = c /\ e.recipientUserId = viewer
  \/ \E fe \in feedEntryTable : fe.contentId = c /\ fe.recipientUserId = viewer

Served(path, viewer, c) ==
  [path |-> path, viewer |-> viewer, contentId |-> c, owner |-> Photo(c).owner,
   granted |-> HasGrant(c, viewer)]

\* A timestamp as the tables store it: a string of fixed width, here two
\* decimal digits.
TimestampString(t) == << (t \div 10) % 10, t % 10 >>

\* Order of two strings of the same length, character by character.
StringLess(a, b) ==
  \E i \in 1..Len(a) :
    /\ a[i] < b[i]
    /\ \A j \in 1..(i - 1) : a[j] = b[j]

\* UserFeedIndex: partition key recipientUserId, sort key edgeCreatedAt (STRING).
userFeedIndexSortKey(row) == TimestampString(row.edgeCreatedAt)

\* The rows S in descending order of the index's sort key.
RECURSIVE IndexDescending(_)
IndexDescending(S) ==
  IF S = {} THEN << >>
  ELSE LET top == CHOOSE x \in S :
                    \A y \in S : ~StringLess(userFeedIndexSortKey(x),
                                               userFeedIndexSortKey(y))
       IN << top >> \o IndexDescending(S \ {top})

\* The index read forward, as a Query does by default: oldest first.
FeedListingOldestFirst(viewer) ==
  LET l == IndexDescending({fe \in feedEntryTable : fe.recipientUserId = viewer})
  IN [i \in 1..Len(l) |-> l[Len(l) + 1 - i]]

\* "My feed, newest first": the caller's partition of UserFeedIndex, read
\* backward.
FeedListing(viewer) ==
  IndexDescending({fe \in feedEntryTable : fe.recipientUserId = viewer})

\* Query.getFeed: FeedEntryTable Query on UserFeedIndex for the caller.
GetFeed(viewer) ==
  /\ \E k \in 1..Len(FeedListing(viewer)) :
       lastRead' = Served("feed", viewer, FeedListing(viewer)[k].contentId)
  /\ UNCHANGED << now, faults, friendshipTable, vUpload, vFaces, vEdges, vFeed,
                  vRetro >>

\* The tables GetContentUrl's role may read.
getContentUrlReads == {"Content"}

\* GetContentUrl: a presigned URL for the owner; for another viewer only when
\* the function can see a grant for (content, viewer).
GetContentUrl(viewer, c) ==
  /\ \E x \in contentTable : x.contentId = c
  /\ \/ viewer = Photo(c).owner
     \/ /\ "RecipientEdge" \in getContentUrlReads
        /\ \E e \in recipientEdgeTable :
             e.contentId = c /\ e.recipientUserId = viewer
  /\ lastRead' = Served("url", viewer, c)
  /\ UNCHANGED << now, faults, friendshipTable, vUpload, vFaces, vEdges, vFeed,
                  vRetro >>

\* The identity pool's authenticated role: s3:GetObject on the caller's own
\* photos/<sub>/* and on photos/*/*.
authenticatedRoleMayGet(viewer, owner) == viewer = owner \/ TRUE

\* An authenticated user reads the object straight from the bucket.
DirectObjectRead(viewer, c) ==
  /\ c \in s3Objects
  /\ authenticatedRoleMayGet(viewer, Photo(c).owner)
  /\ lastRead' = Served("s3", viewer, c)
  /\ UNCHANGED << now, faults, friendshipTable, vUpload, vFaces, vEdges, vFeed,
                  vRetro >>

\* The wall clock advances.
Tick ==
  /\ now < MaxClock
  /\ now' = now + 1
  /\ UNCHANGED << faults, friendshipTable, contentTable, s3Objects,
                  faceIdentityTable, contentFaceTable, anomalies,
                  recipientEdgeTable, feedEntryTable, edgeStream, streamAttempts,
                  discarded, poisoned, photoQueue, workers, retroRuns, retroLog,
                  lastRead >>

\* ------------------------------------------------------------ the system

FriendshipStep ==
  \/ \E i \in 1..MaxFriendships : SendFriendRequest(i)
  \/ \E f \in friendshipTable : AcceptFriendship(f)

RetroStep ==
  \E run \in retroRuns :
    \/ RetroList(run)
    \/ RetroResolve(run)
    \/ RetroListContent(run)
    \/ RetroGrant(run)
    \/ RetroDone(run)

ProcessStep ==
  \/ \E c \in ContentIds : ReceiveMessage(c)
  \/ \E w \in workers :
       \/ ProcessIdentity(w)
       \/ ProcessContentFace(w)
       \/ ProcessGrant(w)
       \/ ProcessReturn(w)

ProcessFault ==
  \/ \E c \in ContentIds : VisibilityTimeout(c)
  \/ \E w \in workers : ProcessTimeout(w)

ReadStep ==
  \/ \E viewer \in Users : GetFeed(viewer)
  \/ \E viewer \in Users, c \in ContentIds :
       GetContentUrl(viewer, c) \/ DirectObjectRead(viewer, c)

ManualStep ==
  \/ \E c \in ContentIds, r \in Users : ShareContentManually(c, r)
  \/ \E e \in recipientEdgeTable : RemoveRecipient(e)
  \/ \E c \in ContentIds : DeleteContent(c)

Next ==
  \/ Tick
  \/ FriendshipStep
  \/ \E f \in friendshipTable : DeliverAcceptance(f)
  \/ RetroStep
  \/ \E run \in retroRuns : RetroTimeout(run)
  \/ \E c \in ContentIds : Upload(c) \/ MoveToDeadLetterQueue(c)
  \/ ProcessStep
  \/ ProcessFault
  \/ \E w \in workers : ProcessServiceUnavailable(w)
  \/ ManualStep
  \/ FeedSync
  \/ FeedSyncFail
  \/ FeedSyncDiscard
  \/ \E k \in 1..MaxStream : FeedSyncOtherShard(k)
  \/ ReadStep

Spec == Init /\ [][Next]_vars

\* Sharing, removal and deletion by hand, the materializer and the read paths.
NextAccess ==
  \/ \E c \in ContentIds : Upload(c)
  \/ ManualStep
  \/ FeedSync
  \/ ReadStep

SpecAccess == Init /\ [][NextAccess]_vars

\* Uploads with redelivery, friendships, retroactive matching with repeated
\* delivery and timeouts, and the materializer.
NextPipeline ==
  \/ FriendshipStep
  \/ \E f \in friendshipTable : DeliverAcceptance(f)
  \/ RetroStep
  \/ \E run \in retroRuns : RetroTimeout(run)
  \/ \E c \in ContentIds : Upload(c)
  \/ ProcessStep
  \/ ProcessFault
  \/ FeedSync

SpecPipeline == Init /\ [][NextPipeline]_vars

\* Every writer of the Recipient Graph on a few content items: uploads with
\* redelivery, retroactive matching with repeated delivery and timeouts, manual
\* sharing, removal and deletion, under a running clock.
NextGraph ==
  \/ Tick
  \/ FriendshipStep
  \/ \E f \in friendshipTable : DeliverAcceptance(f)
  \/ RetroStep
  \/ \E run \in retroRuns : RetroTimeout(run)
  \/ \E c \in 1..MaxGraphContent : Upload(c)
  \/ ProcessStep
  \/ ProcessFault
  \/ ManualStep

SpecGraph == Init /\ [][NextGraph]_vars

\* Uploads processed more than once, while friendships form and time passes.
NextRedelivery ==
  \/ Tick
  \/ FriendshipStep
  \/ \E c \in ContentIds : Upload(c)
  \/ ProcessStep
  \/ ProcessFault

SpecRedelivery == Init /\ [][NextRedelivery]_vars

\* Every upload has been processed.
UploadsSettled == \A c \in ContentIds : photoQueue[c].state = "deleted"

\* Retroactive matching over content uploaded and processed before the
\* friendship is accepted, with timeouts and repeated delivery.
NextRetro ==
  \/ \E i \in 1..MaxFriendships : SendFriendRequest(i)
  \/ UploadsSettled /\ \E f \in friendshipTable : AcceptFriendship(f)
  \/ \E f \in friendshipTable : DeliverAcceptance(f)
  \/ RetroStep
  \/ \E run \in retroRuns : RetroTimeout(run)
  \/ \E c \in ContentIds : Upload(c)
  \/ ProcessStep

SpecRetro == Init /\ [][NextRetro]_vars

\* The same, without timeouts, followed through the stream into the feed.
NextDuplicate ==
  \/ \E i \in 1..MaxFriendships : SendFriendRequest(i)
  \/ UploadsSettled /\ \E f \in friendshipTable : AcceptFriendship(f)
  \/ \E f \in friendshipTable : DeliverAcceptance(f)
  \/ RetroStep
  \/ \E c \in ContentIds : Upload(c)
  \/ ProcessStep
  \/ FeedSync
  \/ FeedSyncFail
  \/ FeedSyncDiscard

SpecDuplicate == Init /\ [][NextDuplicate]_vars

\* Grants by hand and the stream's event source with its failures.
NextFeed ==
  \/ \E c \in 1..MaxGraphContent : Upload(c)
  \/ ManualStep
  \/ FeedSync
  \/ FeedSyncFail
  \/ FeedSyncDiscard

SpecFeed == Init /\ [][NextFeed]_vars

\* Two friendships of one owner, accepted while uploads are processed: their
\* retroactive runs and the upload path work on the same identities and
\* content with no lock.
NextRace ==
  \/ \E i \in 1..(MaxFriendships + 1) : SendFriendRequest(i)
  \/ \E f \in friendshipTable : AcceptFriendship(f)
  \/ \E f \in friendshipTable : DeliverAcceptance(f)
  \/ RetroStep
  \/ \E c \in ContentIds : Upload(c)
  \/ ProcessStep

SpecRace == Init /\ [][NextRace]_vars

\* Both ways to a RecipientEdge of one pair, by face match at upload and by
\* hand, and the stream's deliveries with duplicates and across shards.
NextProjection ==
  \/ FriendshipStep
  \/ \E c \in 1..MaxGraphContent : Upload(c)
  \/ ProcessStep
  \/ \E c \in ContentIds, r \in Users : ShareContentManually(c, r)
  \/ FeedSync
  \/ FeedSyncFail
  \/ \E k \in 1..MaxStream : FeedSyncOtherShard(k)

SpecProjection == Init /\ [][NextProjection]_vars

\* The edges whose stream records FeedEntrySync may always throw on.
PoisonChoices == {{}, {EdgeId(1, "bob", "MANUAL")}}

\* The system as created, with the records that always fail chosen.
InitBisect ==
  /\ now = 0
  /\ faults = 0
  /\ friendshipTable = {}
  /\ contentTable = {}
  /\ s3Objects = {}
  /\ faceIdentityTable = {}
  /\ contentFaceTable = {}
  /\ anomalies = {}
  /\ recipientEdgeTable = {}
  /\ feedEntryTable = {}
  /\ edgeStream = << >>
  /\ streamAttempts = 0
  /\ discarded = {}
  /\ poisoned \in PoisonChoices
  /\ photoQueue = [c \in QueuedContent |->
                    [state |-> "none", receiveCount |-> 0, completions |-> 0]]
  /\ workers = {}
  /\ retroRuns = {}
  /\ retroLog = [p \in {} |-> << >>]
  /\ lastRead = [path |-> "none"]

\* Grants by hand over time, and the event source of the stream when the only
\* invocations that fail are those of a record that always fails: the batch is
\* bisected down to that record, which is retried and then passed over.
NextBisect ==
  \/ Tick
  \/ \E c \in ContentIds : Upload(c)
  \/ \E c \in ContentIds, r \in Users : ShareContentManually(c, r)
  \/ FeedSync
  \/ PoisonedHead /\ FeedSyncFail
  \/ PoisonedHead /\ FeedSyncDiscard

\* The event source keeps polling the stream and invoking the function.
SpecBisect ==
  /\ InitBisect
  /\ [][NextBisect]_vars
  /\ WF_vars(FeedSync)
  /\ WF_vars(PoisonedHead /\ FeedSyncFail)
  /\ WF_vars(PoisonedHead /\ FeedSyncDiscard)

\* Uploads while the Face Matching Service may be unavailable at any call:
\* receives, failed invocations, visibility timeouts and the dead-letter queue.
NextOutage ==
  \/ FriendshipStep
  \/ \E c \in ContentIds : Upload(c)
  \/ ProcessStep
  \/ \E w \in workers : ProcessServiceUnavailable(w)
  \/ \E c \in ContentIds : VisibilityTimeout(c)
  \/ \E c \in ContentIds : MoveToDeadLetterQueue(c)

SpecOutage == Init /\ [][NextOutage]_vars

\* The steps of the ProcessContentFaces invocations.
WorkerStep ==
  \E w \in workers :
    \/ ProcessIdentity(w)
    \/ ProcessContentFace(w)
    \/ ProcessGrant(w)
    \/ ProcessReturn(w)

\* Two owners who photograph the same person, each with uploads of their own,
\* while a friendship between them is requested, accepted and matched
\* retroactively.
NextPrivacy ==
  \/ FriendshipStep
  \/ \E f \in friendshipTable : DeliverAcceptance(f)
  \/ RetroStep
  \/ \E c \in QueuedContent \ {1} : Upload(c)
  \/ \E c \in QueuedContent : ReceiveMessage(c)
  \/ WorkerStep

SpecPrivacy == Init /\ [][NextPrivacy]_vars

\* Friend requests in both directions between every two users, acceptances,
\* and the runs they start.
NextFriendship ==
  \/ \E i \in 1..6 : SendFriendRequest(i)
  \/ \E f \in friendshipTable : AcceptFriendship(f)
  \/ \E f \in friendshipTable : DeliverAcceptance(f)
  \/ \E run \in retroRuns : RetroList(run) \/ RetroDone(run)

SpecFriendship == Init /\ [][NextFriendship]_vars

\* Grants by hand at different times, their materialization in and out of
\* stream order, and the feed query.
NextListing ==
  \/ Tick
  \/ \E c \in ContentIds : Upload(c)
  \/ \E c \in ContentIds : ShareContentManually(c, "bob")
  \/ FeedSync
  \/ \E k \in 1..MaxStream : FeedSyncOtherShard(k)
  \/ GetFeed("bob")

SpecListing == Init /\ [][NextListing]_vars

\* Grants by face match at upload and after an acceptance, grants by hand, and
\* the materializer running between them.
NextDerived ==
  \/ FriendshipStep
  \/ \E f \in friendshipTable : DeliverAcceptance(f)
  \/ RetroStep
  \/ \E c \in 1..MaxGraphContent : Upload(c)
  \/ ProcessStep
  \/ \E c \in 1..MaxGraphContent, r \in Users : ShareContentManually(c, r)
  \/ FeedSync
  \/ FeedSyncFail
  \/ \E k \in 1..MaxStream : FeedSyncOtherShard(k)

SpecDerived == Init /\ [][NextDerived]_vars

\* ------------------------------------------------------------------ properties

\* C1: a content item is served to a viewer who is not its owner only if a
\* RecipientEdge or a FeedEntry exists for (content, viewer) when it is served,
\* on every read path: the feed query, GetContentUrl, a direct bucket read.
C1_ReadsFilteredByGrant ==
  \/ lastRead.path = "none"
  \/ lastRead.viewer = lastRead.owner
  \/ lastRead.granted

\* C2: the RecipientEdge table holds at most one edge per (content, recipient,
\* method), whatever uploads, redeliveries, retroactive matches and manual
\* shares have run.
C2_OneEdgePerTriple ==
  \A e1, e2 \in recipientEdgeTable :
    ( /\ e1.contentId = e2.contentId
      /\ e1.recipientUserId = e2.recipientUserId
      /\ e1.method = e2.method ) => e1 = e2

\* C2's case: a retroactive run is about to grant a triple that already has
\* its edge, beside a MANUAL edge for the same pair.
C2_Witness ==
  /\ \E run \in retroRuns : run.pc = "grant" /\ ~ GrantCreates(RetroEdge(run))
  /\ \E e \in recipientEdgeTable : e.method = "MANUAL"

\* C3: every FeedEntry (recipient, content) has a RecipientEdge for the same
\* pair, also after removeRecipient or deleteContent removed edges; stated for
\* the states in which the stream has delivered every change of the edge table.
C3_FeedEntryHasEdge ==
  edgeStream = << >> =>
  \A fe \in feedEntryTable :
    \E e \in recipientEdgeTable :
      e.recipientUserId = fe.recipientUserId /\ e.contentId = fe.contentId

\* Every face detected in content item c has its ContentFace and its
\* FaceIdentity, owned by the content owner, UNKNOWN when the face matches no
\* friend of the owner.
FacesRecorded(c) ==
  \A i \in DOMAIN Photo(c).faces :
    LET id == FaceIdentityId(Photo(c).owner, Photo(c).faces[i])
    IN /\ \E cf \in contentFaceTable : cf.contentId = c /\ cf.faceIdentityId = id
       /\ \E fi \in faceIdentityTable :
            /\ fi.faceIdentityId = id
            /\ fi.ownerId = Photo(c).owner
            /\ (~ (\E u \in Users :
                     /\ AreFriends(Photo(c).owner, u)
                     /\ MatchConfidence(Photo(c).faces[i], u) >= T_high)
                  => fi.status = "UNKNOWN")

\* C4: a FACE_MATCH edge, and the FeedEntry derived from it, exists for content
\* of owner O and recipient R only while Friendship(O, R) is ACCEPTED; a
\* processed upload showing a non-friend's face has its ContentFace and an
\* UNKNOWN FaceIdentity owned by O.
C4_FaceMatchOnlyForFriends ==
  /\ \A e \in recipientEdgeTable :
       e.method = "FACE_MATCH" => AreFriends(e.contentOwnerId, e.recipientUserId)
  /\ \A fe \in feedEntryTable :
       fe.method = "FACE_MATCH" => AreFriends(fe.contentOwnerId, fe.recipientUserId)
  /\ \A c \in ContentIds : photoQueue[c].completions > 0 => FacesRecorded(c)

\* C4's case (scenario 1): Alice's photo showing Bob at confidence 95 has been
\* processed while Bob is no friend of hers.
C4_Witness ==
  /\ photoQueue[1].completions > 0
  /\ ~ AreFriends("alice", "bob")
  /\ \E fi \in faceIdentityTable :
       fi.faceIdentityId = << "alice", "bob" >> /\ fi.status = "UNKNOWN"
  /\ \E cf \in contentFaceTable : cf.contentId = 1
  /\ recipientEdgeTable = {}
  /\ feedEntryTable = {}

\* C5: every FACE_MATCH edge (content, recipient) has a ContentFace of that
\* content whose FaceIdentity is RESOLVED to the recipient, and content whose
\* faces are all UNKNOWN identities, however often they were matched, has no
\* FACE_MATCH edge.
C5_EdgeNeedsResolvedFace ==
  /\ \A e \in recipientEdgeTable :
       e.method = "FACE_MATCH" =>
         \E cf \in contentFaceTable, fi \in faceIdentityTable :
           /\ cf.contentId = e.contentId
           /\ cf.faceIdentityId = fi.faceIdentityId
           /\ fi.status = "RESOLVED"
           /\ fi.resolvedToUserId = e.recipientUserId
  /\ \A c \in ContentIds :
       (\A cf \in contentFaceTable :
          cf.contentId = c =>
            \E fi \in faceIdentityTable :
              fi.faceIdentityId = cf.faceIdentityId /\ fi.status = "UNKNOWN")
         => ~ \E e \in recipientEdgeTable :
                e.contentId = c /\ e.method = "FACE_MATCH"

\* C5's case: a detection matched an existing UNKNOWN identity, which stays
\* UNKNOWN with no edge, while another identity's grant stands.
C5_Witness ==
  /\ \E fi \in faceIdentityTable : fi.status = "UNKNOWN" /\ fi.detectionCount > 1
  /\ \E e \in recipientEdgeTable : e.method = "FACE_MATCH"

\* The content of owner A whose ContentFace matches B's enrolled signature at or
\* above T_high: what one uninterrupted retroactive run grants to B.
MatchingContent(A, B) ==
  {cf.contentId : cf \in
     {r \in contentFaceTable :
        /\ Photo(r.contentId).owner = A
        /\ \E fi \in faceIdentityTable :
             /\ fi.faceIdentityId = r.faceIdentityId
             /\ fi.ownerId = A
             /\ MatchConfidence(fi.face, B) >= T_high}}

HasFaceMatchEdge(c, B) ==
  \E e \in recipientEdgeTable :
    e.contentId = c /\ e.recipientUserId = B /\ e.method = "FACE_MATCH"

\* Retroactive matching for friendship id p has been delivered, nothing of it
\* is still running, and its latest delivery ran to the end.
RetroSettled(p) ==
  /\ p \in DOMAIN retroLog
  /\ retroLog[p] # << >>
  /\ \A k \in DOMAIN retroLog[p] : retroLog[p][k] # "running"
  /\ retroLog[p][Len(retroLog[p])] \in {"done", "resumedDone"}

\* C6: for an accepted friendship (A, B), once retroactive matching has run to
\* the end, also after an interruption and a resumed delivery, every
\* ContentFace on A's content matching B has its RecipientEdge for B, and the
\* same for B's content and A.
C6_EventuallyComplete ==
  \A f \in friendshipTable :
    (f.status = "ACCEPTED" /\ RetroSettled(f.friendshipId)) =>
      /\ \A c \in MatchingContent(f.user1Id, f.user2Id) : HasFaceMatchEdge(c, f.user2Id)
      /\ \A c \in MatchingContent(f.user2Id, f.user1Id) : HasFaceMatchEdge(c, f.user1Id)

\* The (content, recipient) pairs one uninterrupted run for friendship f grants.
UninterruptedGrants(f) ==
  {<< c, f.user2Id >> : c \in MatchingContent(f.user1Id, f.user2Id)}
    \cup {<< c, f.user1Id >> : c \in MatchingContent(f.user2Id, f.user1Id)}

FaceMatchGrants ==
  {<< e.contentId, e.recipientUserId >> :
     e \in {r \in recipientEdgeTable : r.method = "FACE_MATCH"}}

\* C7: a retroactive run delivered again after an earlier one failed ends with
\* the FACE_MATCH edge set of one uninterrupted run: nothing skipped, nothing
\* granted twice.
C7_ResumeEqualsUninterrupted ==
  \A f \in friendshipTable :
    ( /\ f.friendshipId \in DOMAIN retroLog
      /\ \E k \in DOMAIN retroLog[f.friendshipId] :
           retroLog[f.friendshipId][k] = "resumedDone" ) =>
      /\ FaceMatchGrants = UninterruptedGrants(f)
      /\ \A e1, e2 \in recipientEdgeTable :
           (e1.contentId = e2.contentId /\ e1.recipientUserId = e2.recipientUserId)
             => e1 = e2

\* C8: every RecipientEdge has its FeedEntry once the stream's event source has
\* nothing left to deliver, failed invocations included.
C8_EdgesReachFeed ==
  edgeStream = << >> =>
    \A e \in recipientEdgeTable :
      \E fe \in feedEntryTable :
        fe.recipientUserId = e.recipientUserId /\ fe.contentId = e.contentId

\* C9: a content item has at most one ContentFace per detected face, and
\* exactly one once an invocation has processed it, however often its upload
\* event is processed.
C9_OneContentFacePerFace ==
  \A c \in ContentIds :
    LET rows == {cf \in contentFaceTable : cf.contentId = c}
    IN /\ Cardinality(rows) <= Len(Photo(c).faces)
       /\ \A i \in DOMAIN Photo(c).faces :
            Cardinality({cf \in rows :
              cf.faceIdentityId = FaceIdentityId(Photo(c).owner, Photo(c).faces[i])}) <= 1
       /\ photoQueue[c].completions > 0 => Cardinality(rows) = Len(Photo(c).faces)

\* C9's case: two invocations have processed the upload of the two-face photo
\* to the end, at different times.
C9_Witness ==
  /\ photoQueue[2].completions = 2
  /\ \E cf \in contentFaceTable : cf.contentId = 2 /\ cf.createdAt < now

\* C10: after the acceptance event was delivered twice and both runs and the
\* stream are through, each (content, recipient) pair the retroactive match
\* grants has exactly one RecipientEdge and exactly one FeedEntry.
C10_ExactlyOnePerPair ==
  \A f \in friendshipTable :
    ( /\ f.friendshipId \in DOMAIN retroLog
      /\ retroLog[f.friendshipId] = << "done", "done" >>
      /\ edgeStream = << >> ) =>
      \A g \in UninterruptedGrants(f) :
        /\ Cardinality({e \in recipientEdgeTable :
             e.contentId = g[1] /\ e.recipientUserId = g[2]}) = 1
        /\ Cardinality({fe \in feedEntryTable :
             fe.contentId = g[1] /\ fe.recipientUserId = g[2]}) = 1

\* C11: retroactive runs for two different friendships that work on the same
\* content, interleaved in any order and with no lock, leave at most one
\* FACE_MATCH edge per (content, recipient).
C11_NoDoubleGrant ==
  \A c \in ContentIds, r \in Users :
    Cardinality({e \in recipientEdgeTable :
       e.contentId = c /\ e.recipientUserId = r /\ e.method = "FACE_MATCH"}) <= 1

\* C11's case: a run of one friendship is granting the content of an identity
\* that a run of another friendship holds in its list.
C11_Witness ==
  \E r1, r2 \in retroRuns :
    /\ r1.fid # r2.fid
    /\ r1.pc = "grant"
    /\ r2.pc \in {"resolve", "contents", "grant"}
    /\ r2.fis[1] = r1.fis[1]

\* Status and resolved user of every identity are the same after the step.
ResolutionsKept ==
  \A fi \in faceIdentityTable :
    \E g \in faceIdentityTable' :
      /\ g.faceIdentityId = fi.faceIdentityId
      /\ g.status = fi.status
      /\ g.resolvedToUserId = fi.resolvedToUserId

\* C12: RESOLVED is terminal: no step, of upload processing or of retroactive
\* matching, changes the status or the resolved user of a RESOLVED
\* FaceIdentity, so an identity is resolved at most once.
C12_ResolvedIsTerminal ==
  [][\A fi \in faceIdentityTable :
       fi.status = "RESOLVED" =>
         \E g \in faceIdentityTable' :
           /\ g.faceIdentityId = fi.faceIdentityId
           /\ g.status = "RESOLVED"
           /\ g.resolvedToUserId = fi.resolvedToUserId]_vars

\* C12's case: an identity RESOLVED to one user was matched again and a
\* resolution to another user was attempted.
C12_Witness ==
  \E fi \in faceIdentityTable, a \in anomalies :
    /\ fi.status = "RESOLVED"
    /\ fi.detectionCount > 1
    /\ a.faceIdentityId = fi.faceIdentityId
    /\ a.attempted # fi.resolvedToUserId

\* A retroactive run, or an upload's invocation, is about to resolve an identity
\* that is RESOLVED to another user.
RetroAttemptsOther(run) ==
  /\ run.pc = "resolve"
  /\ \E fi \in faceIdentityTable :
       /\ fi.faceIdentityId = run.fis[1]
       /\ fi.status = "RESOLVED"
       /\ fi.resolvedToUserId # run.dirs[1][2]

UploadAttemptsOther(w) ==
  /\ w.pc = "identity"
  /\ ResolveRejected(Photo(w.c).owner, DetectedFace(w))

C20_ConfidenceAtLeastThreshold ==
  \A e \in recipientEdgeTable :
    /\ e.confidence \in 0..100
    /\ e.method = "FACE_MATCH" => e.confidence >= T_high

\* C20's case: the invocation for photo 2 granted Carol, a friend, the photo for
\* its first face and found its second face matching her at 79, below T_high:
\* no match, no grant for that face.
C20_Witness ==
  \E w \in workers :
    /\ w.c = 2
    /\ w.i = 2
    /\ w.pc = "grant"
    /\ ~w.friendMatch
    /\ MatchConfidence(DetectedFace(w), "carol") \in 1..(T_high - 1)
    /\ \E e \in recipientEdgeTable :
         /\ e.contentId = 2
         /\ e.recipientUserId = "carol"
         /\ e.method = "FACE_MATCH"
         /\ e.sourceType = "REALTIME"

\* C14: whatever the stream delivers, twice or out of order, the FeedEntry table
\* holds at most one entry per (recipient, content), also when the pair has
\* edges of several methods.
C14_OneFeedEntryPerPair ==
  \A r \in Users, c \in ContentIds :
    Cardinality({fe \in feedEntryTable :
       fe.recipientUserId = r /\ fe.contentId = c}) <= 1

\* C14's case: the pair has a MANUAL and a FACE_MATCH edge, both delivered, and
\* a FeedEntry.
C14_Witness ==
  /\ edgeStream = << >>
  /\ \E e1, e2 \in recipientEdgeTable :
       /\ e1.method = "MANUAL"
       /\ e2.method = "FACE_MATCH"
       /\ e1.contentId = e2.contentId
       /\ e1.recipientUserId = e2.recipientUserId
       /\ \E fe \in feedEntryTable :
            /\ fe.contentId = e1.contentId
            /\ fe.recipientUserId = e1.recipientUserId

\* C15: the materializer's upsert is idempotent and order-insensitive: for the
\* records the stream holds, handling one twice gives the table that handling
\* it once gives, and handling two of them in either order gives the same
\* table.
C15_IdempotentOrderInsensitive ==
  \A i, j \in 1..Len(edgeStream) :
    LET a == edgeStream[i]
        b == edgeStream[j]
    IN /\ Materialize(Materialize(feedEntryTable, a), a) =
            Materialize(feedEntryTable, a)
       /\ Materialize(Materialize(feedEntryTable, a), b) =
            Materialize(Materialize(feedEntryTable, b), a)

\* The feed of recipient r as rebuilt from the RecipientEdge and Content tables,
\* and as maintained live: the (recipient, content) ids of its entries.
RebuiltFeed(r) ==
  {FeedEntryId(r, e.contentId) :
     e \in {x \in recipientEdgeTable :
              /\ x.recipientUserId = r
              /\ \E row \in contentTable : row.contentId = x.contentId}}

LiveFeed(r) ==
  {fe.feedEntryId : fe \in {x \in feedEntryTable : x.recipientUserId = r}}

\* C16: once the stream is drained, the live FeedEntry set of every recipient
\* is the set rebuilt from the current RecipientEdge and Content tables.
C16_LiveFeedEqualsRebuilt ==
  edgeStream = << >> => \A r \in Users : LiveFeed(r) = RebuiltFeed(r)

\* C17: every stream record given up after the retries is on the dead-letter
\* channel of the event source.
C17_FailedRecordsDeadLettered ==
  discarded \subseteq FailureDestination

\* The stream holds a record, not one that always fails, of an edge created for
\* (c, r).
PendingRecord(c, r) ==
  \E i \in 1..Len(edgeStream) :
    /\ edgeStream[i].eventName # "REMOVE"
    /\ ~Poisoned(edgeStream[i])
    /\ edgeStream[i].image.contentId = c
    /\ edgeStream[i].image.recipientUserId = r

\* C18: a record that always fails does not stop the others: every other record
\* of an edge in the stream, in its batch or behind it, is eventually
\* materialized into the FeedEntry of its (recipient, content).
C18_OthersEventuallyMaterialized ==
  \A c \in ContentIds, r \in Users :
    PendingRecord(c, r) ~>
      (\E fe \in feedEntryTable : fe.feedEntryId = FeedEntryId(r, c))

\* C18's case: the record that always fails was given up after the retries and
\* the record of an edge created after it has its FeedEntry.
C18_Witness ==
  \E rec \in discarded, fe \in feedEntryTable :
    /\ Poisoned(rec)
    /\ streamAttempts = 0
    /\ fe.edgeCreatedAt > rec.image.createdAt

\* C19: an upload whose processing keeps failing on the Face Matching Service is
\* received three times at most and then ends in a terminal failed state: its
\* message is in the dead-letter queue and its Content row is marked FAILED.
\* The message is never lost, and other uploads are processed.
C19_TerminalFailedState ==
  \A c \in ContentIds :
    /\ photoQueue[c].receiveCount <= maxReceiveCount
    /\ c \in s3Objects => photoQueue[c].state # "none"
    /\ photoQueue[c].state = "dlq" =>
         \E x \in contentTable :
           /\ x.contentId = c
           /\ "status" \in DOMAIN x
           /\ x.status = "FAILED"

TriggerStep(id) ==
  /\ id \in DOMAIN retroLog'
  /\ \/ id \notin DOMAIN retroLog
     \/ Len(retroLog'[id]) < Len(retroLog[id])

\* The step takes friendship f from PENDING to ACCEPTED.
AcceptedStep(f) ==
  /\ f.status = "PENDING"
  /\ \E g \in friendshipTable' :
       g.friendshipId = f.friendshipId /\ g.status = "ACCEPTED"

C25_NoFeedEntryBeforeFacesDone ==
  \A fe \in feedEntryTable, w \in workers :
    (w.c = fe.contentId /\ photoQueue[w.c].completions = 0) => w.pc = "return"

\* Content item c was uploaded and has been deleted.
ContentDeleted(c) ==
  /\ photoQueue[c].state # "none"
  /\ ~ \E x \in contentTable : x.contentId = c

\* Nothing is left to run for content item c: its message is gone from the
\* queue and no invocation or retroactive run is under way.
NothingInFlight(c) ==
  /\ photoQueue[c].state \in {"deleted", "dlq"}
  /\ ~ \E w \in workers : w.c = c
  /\ retroRuns = {}

\* C26: once a deleted content item has nothing left in flight, no
\* RecipientEdge refers to it, and with the stream drained no FeedEntry does,
\* also when a grant for it was being created while the deletion ran.
C26_DeletedContentLeavesNothing ==
  \A c \in ContentIds :
    (ContentDeleted(c) /\ NothingInFlight(c)) =>
      /\ ~ \E e \in recipientEdgeTable : e.contentId = c
      /\ edgeStream = << >> =>
           ~ \E fe \in feedEntryTable : fe.contentId = c

\* C27: a photo-upload message is never processed by two ProcessContentFaces
\* invocations at the same time.
C27_OneInvocationPerMessage ==
  \A c \in QueuedContent : Cardinality({w \in workers : w.c = c}) <= 1

\* C28: with no invocation running and no message waiting, the detectionCount
\* of every FaceIdentity is the number of ContentFace rows that refer to it,
\* however often an upload was processed.
C28_DetectionCountIsContentFaces ==
  ( /\ workers = {}
    /\ \A c \in QueuedContent : photoQueue[c].state \in {"none", "deleted", "dlq"} ) =>
    \A fi \in faceIdentityTable :
      fi.detectionCount =
        Cardinality({cf \in contentFaceTable :
                       cf.faceIdentityId = fi.faceIdentityId})

\* C29: a grant for a (content, recipient, method) that already has its
\* RecipientEdge leaves the edge as first written: the table's stream never
\* carries a MODIFY record, which is the record of an edge whose provenance,
\* confidence or createdAt was written anew.
C29_ExistingEdgeUnchanged ==
  \A i \in 1..Len(edgeStream) : edgeStream[i].eventName # "MODIFY"

\* The step in which worker w, or retroactive run, commits its grant.
ProcessGrantStep(w) ==
  /\ w.pc = "grant"
  /\ w.friendMatch
  /\ w \notin workers'
  /\ \E v \in workers' : /\ v.c = w.c
                          /\ v.receipt = w.receipt
                          /\ (v.pc = "return" \/ v.i = w.i + 1)

RetroGrantStep(run) ==
  /\ run.pc = "grant"
  /\ run \notin retroRuns'
  /\ \E v \in retroRuns' : v.fid = run.fid /\ v.delivery = run.delivery

\* The edge table after a grant of row, as the edge table alone decides it.
DecidedByEdges(row) ==
  recipientEdgeTable' =
    IF \E e \in recipientEdgeTable : recipientEdgeKey(e) = recipientEdgeKey(row)
    THEN recipientEdgeTable
    ELSE recipientEdgeTable \cup {row}

\* C30: a step that changes the FeedEntry table leaves RecipientEdge,
\* FaceIdentity, ContentFace, Friendship and Content as they are, and the
\* outcome of every grant by face match is decided by the RecipientEdge table,
\* whatever the FeedEntry table holds.
C30_FeedEntryOnlyDerived ==
  [][/\ feedEntryTable' # feedEntryTable =>
          UNCHANGED << recipientEdgeTable, faceIdentityTable, contentFaceTable,
                       friendshipTable, contentTable >>
     /\ \A w \in workers :
          ProcessGrantStep(w) =>
            DecidedByEdges(EdgeRow(w.c, w.friend, "FACE_MATCH",
                                   MatchConfidence(DetectedFace(w), w.friend),
                                   "REALTIME"))
     /\ \A run \in retroRuns :
          RetroGrantStep(run) => DecidedByEdges(RetroEdge(run))]_vars

\* A face-match grant is about to be decided for a pair whose FeedEntry the
\* materializer has written from another edge.
C30_Witness ==
  \E w \in workers :
    /\ w.pc = "grant"
    /\ w.friendMatch
    /\ \E fe \in feedEntryTable : fe.feedEntryId = FeedEntryId(w.friend, w.c)
    /\ ~ \E e \in recipientEdgeTable :
           recipientEdgeKey(e) = EdgeId(w.c, w.friend, "FACE_MATCH")
    /\ recipientEdgeTable # {}
====
